---- MODULE Spec2Model ----
(***************************************************************************)
(* HardwareController (code-raspi/src/hardware_controller.cpp): the I2C    *)
(* worker thread, the command queue fed by set_light, and the readings     *)
(* published through per-field atomics and read by get_values.             *)
(*                                                                         *)
(* Threads: the thread that calls init/exit, the worker (loop), producers  *)
(* calling set_light, one consumer calling get_values.  Every shared       *)
(* access of the code is one step: a mutex acquisition, the critical       *)
(* section up to its unlock, one bus call, one atomic store or load.       *)
(***************************************************************************)
EXTENDS Integers, Sequences, FiniteSets, TLC

\* ---------------------------------------------------------------- constants
SLAVE_ADDRESS == 80
CYCLE_MSEC == 50
LIGHT_ON == 17
LIGHT_OFF == 16
READ_REQUEST == 0
NO_CMD == 255
FRAME_LEN == 9

\* ------------------------------------------------------------------- bounds
\* commands pending (pushed, not yet written to the bus) at one time; also
\* the length of the record the history keeps of the most recent commands
MaxCmds == 2
\* saturation of the count of command writes after exit()
LogCap == 2
\* largest raw tuner value given to tuner_val_to_freq
MaxTunerVal == 1023

Producers == {"p1", "p2"}

\* Reply frames the peripheral may answer with: all five fields differ
\* between the two, and the second uses the high bytes.
Frame1 == <<144, 0, 10, 0, 20, 0, 30, 0, 1>>
Frame2 == <<217, 1, 11, 1, 21, 2, 31, 3, 0>>
Frames == {Frame1, Frame2}

\* What read(file_i2c, &data, 9) may return: an error, a short read, all 9.
ReadResults == {-1, 4, FRAME_LEN}
\* What write(file_i2c, buffer, 1) may return: an error, nothing written, 1.
WriteResults == {-1, 0, 1}

VARIABLES
    \* ---- statics of HardwareController
    file_i2c,      \* bus handle, -1 when closed
    mut,           \* owner of the mutex: "free", "worker" or a producer
    commands,      \* std::vector<uint8_t> commands
    quitting,
    buffer0,       \* buffer[0]
    val_tuner, val_aknob, val_bknob, val_cknob, val_swtch,
    \* ---- init()
    ipc,           \* "open","ioctl","mutex","create","done","failed"
    \* ---- locals of loop()
    wpc,           \* position of the worker
    last_cycle_failed,
    data,          \* InputReadings data, as its 9 bytes
    cmd,
    \* ---- set_light callers
    ppc, pcmd,
    \* ---- get_values caller
    rpc, rd,
    \* ---- history (observed, never read by the program)
    \* the three records below cover the same most recent commands: when a
    \* push finds the record full, its oldest command, already pushed,
    \* removed and written, is dropped from all three
    enq,           \* opcodes in the order they were pushed
    deq,           \* opcodes in the order they were removed
    sent,          \* command writes issued on the bus: [op, ok]
    markEnq, markDeq,   \* Len(enq), Len(deq) when this cycle's drain began
    lastGood,      \* the reply, decoded, of the last read that returned 9 bytes
    rdirty,        \* a store happened during the current get_values call
    cyc,           \* phase of the current cycle, then what the bus returned:
                   \* "sleep","drain","req" / "wfail","rfail","ok"
    prev,          \* what the bus returned in the cycle before: "none" (no
                   \* cycle before), "wfail", "rfail" or "ok"
    msgs,          \* the messages this cycle has logged about its exchange:
                   \* "wfail", "wrec", "rfail", "rrec", in order
    quitSleeps,    \* sleeps begun after exit() was called
    quitCmds,      \* command writes issued after exit() was called
    quitPolls,     \* 0x00 writes and reads issued after exit() was called
    bus,           \* the bus calls this cycle has issued, in order: "cmd" (one
                   \* entry for a row of command writes), "req1" / "reqf" (the
                   \* 0x00 write returned 1 / did not), "read"
    \* ---- a caller of the interpolation functions
    tpc,           \* "idle", "start", "fwd" (tuner_val_to_freq has returned),
                   \* "inv" (freq_to_tuner_val has returned)
    val,           \* the argument of tuner_val_to_freq
    freq,          \* its result, then the argument of freq_to_tuner_val
    back           \* the result of freq_to_tuner_val

statics == <<file_i2c, mut, commands, quitting, buffer0>>
vals == <<val_tuner, val_aknob, val_bknob, val_cknob, val_swtch>>
wlocals == <<wpc, last_cycle_failed, data, cmd>>
plocals == <<ppc, pcmd>>
rlocals == <<rpc, rd>>
qhist == <<enq, deq, sent, markEnq, markDeq>>
vhist == <<lastGood, rdirty>>
lhist == <<cyc, prev, msgs, bus>>
xhist == <<quitSleeps, quitCmds, quitPolls>>
calc == <<tpc, val, freq, back>>
vars == <<statics, vals, ipc, wlocals, plocals, rlocals, qhist, vhist, lhist,
          xhist, calc>>

\* ------------------------------------------------------------- Frame codec
\* sizeof(InputReadings) under #pragma pack(1)
InputReadingsSize == 2 + 2 + 2 + 2 + 1

\* mutant: the two bytes of a uint16_t taken high byte first
U16BigEndian(d, off) == 256 * d[off + 1] + d[off + 2]

\* a little-endian uint16_t at byte offset off (0-based) of d
U16(d, off) == d[off + 1] + 256 * d[off + 2]

\* the fields of the packed struct laid over the 9 bytes
Decode(d) == <<U16(d, 0), U16(d, 2), U16(d, 4), U16(d, 6), d[9]>>

\* the peripheral's side of the same packed struct: the five fields written
\* out as 9 bytes, low byte first
Encode(t) ==
    <<t[1] % 256, t[1] \div 256, t[2] % 256, t[2] \div 256,
      t[3] % 256, t[3] \div 256, t[4] % 256, t[4] \div 256, t[5]>>

\* Readings the peripheral may hold: the ends of the ranges, values on both
\* sides of a byte boundary, every field different from its neighbours
CodecReadings ==
    { <<0, 0, 0, 0, 0>>,
      <<65535, 65535, 65535, 65535, 255>>,
      <<255, 256, 257, 1, 2>>,
      <<256, 255, 32768, 32767, 128>>,
      <<144, 473, 703, 1023, 1>>,
      <<1, 2, 3, 4, 5>> }
CodecFrames == {Encode(t) : t \in CodecReadings}

ZeroReading == <<0, 0, 0, 0, 0>>
ZeroFrame == <<0, 0, 0, 0, 0, 0, 0, 0, 0>>

\* read() returning n stores the first n bytes of the reply into data
Overlay(old, reply, n) ==
    [i \in 1..FRAME_LEN |-> IF i <= n THEN reply[i] ELSE old[i]]

Inc(c, cap) == IF c < cap THEN c + 1 ELSE cap


\* uninitialised stack contents of `InputReadings data`
Garbage == { ZeroFrame, <<255, 255, 255, 255, 255, 255, 255, 255, 255>> }
Unset == <<-1, -1, -1, -1, -1>>

\* -------------------------------------------------------------------- Init
\* The statics as defined at file scope; no thread, no call in progress.
Constructed ==
    /\ file_i2c = -1
    /\ mut = "free"
    /\ commands = <<>>
    /\ quitting = FALSE
    /\ buffer0 = 0
    /\ val_tuner = 0 /\ val_aknob = 0 /\ val_bknob = 0
    /\ val_cknob = 0 /\ val_swtch = 0
    /\ ipc = "open"
    /\ wpc = "none"
    /\ last_cycle_failed = FALSE
    /\ data = ZeroFrame
    /\ cmd = NO_CMD
    /\ ppc = [p \in Producers |-> "idle"]
    /\ pcmd = [p \in Producers |-> NO_CMD]
    /\ rpc = 0
    /\ rd = Unset
    /\ enq = <<>> /\ deq = <<>> /\ sent = <<>>
    /\ markEnq = 0 /\ markDeq = 0
    /\ lastGood = ZeroReading
    /\ rdirty = FALSE
    /\ cyc = "none"
    /\ prev = "none"
    /\ msgs = <<>>
    /\ bus = <<>>
    /\ quitSleeps = 0 /\ quitCmds = 0 /\ quitPolls = 0

\* no call of the interpolation functions
Init ==
    /\ Constructed
    /\ tpc = "idle"
    /\ val = 0 /\ freq = 0 /\ back = 0

\* ------------------------------------------------------------------ init()
\* mutant: deinit() leaves the handle as it is
deinitLeak == UNCHANGED file_i2c

\* deinit(): close the handle if open, leave -1
deinit == file_i2c' = -1

InitFail ==
    /\ deinit
    /\ ipc' = "failed"
    /\ UNCHANGED wpc

\* open(I2C_NODE): the descriptor or -1 is assigned to file_i2c
InitOpen ==
    /\ ipc = "open"
    /\ \E ok \in BOOLEAN :
          IF ok THEN file_i2c' = 3 /\ ipc' = "ioctl" /\ UNCHANGED wpc
                ELSE InitFail
    /\ UNCHANGED calc
    /\ UNCHANGED <<mut, commands, quitting, buffer0, vals, last_cycle_failed,
                   data, cmd, plocals, rlocals, qhist, vhist, lhist, xhist>>

\* ioctl(file_i2c, I2C_SLAVE, SLAVE_ADDRESS)
InitIoctl ==
    /\ ipc = "ioctl"
    /\ \E ok \in BOOLEAN :
          IF ok THEN ipc' = "mutex" /\ UNCHANGED <<file_i2c, wpc>>
                ELSE InitFail
    /\ UNCHANGED calc
    /\ UNCHANGED <<mut, commands, quitting, buffer0, vals, last_cycle_failed,
                   data, cmd, plocals, rlocals, qhist, vhist, lhist, xhist>>

\* pthread_mutex_init(&mut, NULL)
InitMutex ==
    /\ ipc = "mutex"
    /\ \E ok \in BOOLEAN :
          IF ok THEN ipc' = "create" /\ UNCHANGED <<file_i2c, wpc>>
                ELSE InitFail
    /\ UNCHANGED calc
    /\ UNCHANGED <<mut, commands, quitting, buffer0, vals, last_cycle_failed,
                   data, cmd, plocals, rlocals, qhist, vhist, lhist, xhist>>

\* pthread_create(&thread, NULL, loop, NULL); pthread_detach; return true
InitCreate ==
    /\ ipc = "create"
    /\ \E ok \in BOOLEAN :
          IF ok THEN ipc' = "done" /\ wpc' = "enter" /\ UNCHANGED file_i2c
                ELSE InitFail
    /\ UNCHANGED calc
    /\ UNCHANGED <<mut, commands, quitting, buffer0, vals, last_cycle_failed,
                   data, cmd, plocals, rlocals, qhist, vhist, lhist, xhist>>

\* init() has returned to its caller (main.cpp calls everything else after it)
InitReturned == ipc \in {"done", "failed"}

\* ------------------------------------------------------------------ exit()
\* mutant: exit() closes the handle itself
ExitDeinit ==
    /\ InitReturned
    /\ ~quitting
    /\ quitting' = TRUE
    /\ deinit
    /\ UNCHANGED calc
    /\ UNCHANGED <<mut, commands, buffer0, vals, ipc, wlocals,
                   plocals, rlocals, qhist, vhist, lhist, xhist>>

\* lines 102-105: quitting = true
Exit ==
    /\ InitReturned
    /\ ~quitting
    /\ quitting' = TRUE
    /\ UNCHANGED calc
    /\ UNCHANGED <<file_i2c, mut, commands, buffer0, vals, ipc, wlocals,
                   plocals, rlocals, qhist, vhist, lhist, xhist>>

\* -------------------------------------------------------------- set_light
Opcode(on) == IF on THEN LIGHT_ON ELSE LIGHT_OFF

\* commands pushed and not yet written to the bus
Pending == Len(enq) - Len(sent)

\* the record is full and its oldest command has been through the bus
RecordFull == Len(enq) >= MaxCmds /\ Len(deq) > 0 /\ Len(sent) > 0
Older(h) == IF RecordFull THEN Tail(h) ELSE h
OlderMark(n) == IF RecordFull /\ n > 0 THEN n - 1 ELSE n

\* cmd = on ? 0x11 : 0x10; Lock lock(&mut)
SetLightLock(p) ==
    /\ InitReturned
    /\ ppc[p] = "idle"
    /\ Pending + Cardinality({q \in Producers : ppc[q] = "locked"}) < MaxCmds
    /\ mut = "free"
    /\ \E on \in BOOLEAN : pcmd' = [pcmd EXCEPT ![p] = Opcode(on)]
    /\ mut' = p
    /\ ppc' = [ppc EXCEPT ![p] = "locked"]
    /\ UNCHANGED calc
    /\ UNCHANGED <<file_i2c, commands, quitting, buffer0, vals, ipc, wlocals,
                   rlocals, qhist, vhist, lhist, xhist>>

\* commands.push_back(cmd); ~Lock
SetLightPush(p) ==
    /\ ppc[p] = "locked"
    /\ commands' = Append(commands, pcmd[p])
    /\ enq' = Append(Older(enq), pcmd[p])
    /\ deq' = Older(deq)
    /\ sent' = Older(sent)
    /\ markEnq' = OlderMark(markEnq)
    /\ markDeq' = OlderMark(markDeq)
    /\ mut' = "free"
    /\ ppc' = [ppc EXCEPT ![p] = "idle"]
    /\ pcmd' = [pcmd EXCEPT ![p] = NO_CMD]
    /\ UNCHANGED calc
    /\ UNCHANGED <<file_i2c, quitting, buffer0, vals, ipc, wlocals, rlocals,
                   vhist, lhist, xhist>>

\* ------------------------------------------------------------------- loop()
\* write()/read() on a closed handle fail with EBADF
WriteReturns == IF file_i2c = -1 THEN {-1} ELSE WriteResults
ReadReturns == IF file_i2c = -1 THEN {-1} ELSE ReadResults

\* a bus call issued after exit() was called
AfterExit(n) == IF quitting THEN n + 1 ELSE n

\* a command write is issued: a row of them is noted once
NoteCmd ==
    IF bus # <<>> /\ bus[Len(bus)] = "cmd" THEN bus ELSE Append(bus, "cmd")

\* printf / fprintf of one message about the exchange, when cond holds
Log(m, cond) == msgs' = IF cond THEN Append(msgs, m) ELSE msgs

\* lines 109-118: locals and the size check; `stack` is what the
\* uninitialised data may hold
LoopEnter(stack) ==
    /\ wpc = "enter"
    /\ last_cycle_failed' = FALSE
    /\ data' \in stack
    /\ wpc' = IF InputReadingsSize # FRAME_LEN THEN "ended" ELSE "check"
    /\ UNCHANGED calc
    /\ UNCHANGED <<statics, vals, ipc, cmd, plocals, rlocals, qhist, vhist,
                   lhist, xhist>>

\* line 120: while (!quitting)
LoopCheck ==
    /\ wpc = "check"
    /\ wpc' = IF quitting THEN "deinit" ELSE "sleep"
    /\ UNCHANGED calc
    /\ UNCHANGED <<statics, vals, ipc, last_cycle_failed, data, cmd, plocals,
                   rlocals, qhist, vhist, lhist, xhist>>

\* line 122: usleep(CYCLE_MSEC * 1000)
Sleep ==
    /\ wpc = "sleep"
    /\ wpc' = "lock"
    /\ cyc' = "sleep"
    /\ prev' = IF cyc \in {"wfail", "rfail", "ok"} THEN cyc ELSE "none"
    /\ msgs' = <<>>
    /\ bus' = <<>>
    /\ quitSleeps' = AfterExit(quitSleeps)
    /\ UNCHANGED calc
    /\ UNCHANGED <<statics, vals, ipc, last_cycle_failed, data, cmd, plocals,
                   rlocals, qhist, vhist, quitCmds, quitPolls>>

\* lines 127-129: cmd = 0xff; Lock lock(&mut)
DrainLock ==
    /\ wpc = "lock"
    /\ mut = "free"
    /\ mut' = "worker"
    /\ cmd' = NO_CMD
    /\ wpc' = "pop"
    /\ IF cyc = "sleep"
         THEN cyc' = "drain" /\ markEnq' = Len(enq) /\ markDeq' = Len(deq)
         ELSE UNCHANGED <<cyc, markEnq, markDeq>>
    /\ UNCHANGED calc
    /\ UNCHANGED <<file_i2c, commands, quitting, buffer0, vals, ipc,
                   last_cycle_failed, data, plocals, rlocals, enq, deq, sent,
                   vhist, prev, msgs, bus, xhist>>

\* mutant: the newest command is taken instead of the oldest
QueueBack(q) == q[Len(q)]

\* commands.front()
QueueFront(q) == Head(q)
\* commands.erase(commands.begin())
EraseBegin(q) == Tail(q)

\* mutant: an if in place of the while (true): one command per cycle
AfterOneCmd == "req_write"

\* where the drain goes after a command was written: back to while (true)
AfterCmdWrite == "lock"

\* mutant: the lock is not released where the block closes
LockKept == "worker"

\* line 135: the block closes and ~Lock unlocks the mutex
LockReleased == "free"

\* lines 130-136: take the first command if there is one; ~Lock; break if none
DrainPop ==
    /\ wpc = "pop"
    /\ IF Len(commands) > 0
         THEN /\ cmd' = QueueFront(commands)
              /\ commands' = EraseBegin(commands)
              /\ deq' = Append(deq, QueueFront(commands))
         ELSE UNCHANGED <<cmd, commands, deq>>
    /\ mut' = LockReleased
    /\ wpc' = IF cmd' = NO_CMD THEN "req_write" ELSE "cmd_write"
    /\ UNCHANGED calc
    /\ UNCHANGED <<file_i2c, quitting, buffer0, vals, ipc, last_cycle_failed,
                   data, plocals, rlocals, enq, sent, markEnq, markDeq, vhist,
                   lhist, xhist>>

\* mutant: a command whose write failed is put back at the head of the queue
CmdWriteRequeue ==
    /\ wpc = "cmd_write"
    /\ buffer0' = cmd
    /\ \E r \in WriteReturns :
          /\ sent' = Append(sent, [op |-> cmd, ok |-> (r = 1)])
          /\ commands' = IF r = 1 THEN commands ELSE <<cmd>> \o commands
    /\ quitCmds' = IF quitting THEN Inc(quitCmds, LogCap) ELSE quitCmds
    /\ bus' = NoteCmd
    /\ wpc' = "lock"
    /\ UNCHANGED calc
    /\ UNCHANGED <<file_i2c, mut, quitting, vals, ipc,
                   last_cycle_failed, data, cmd, plocals, rlocals, enq, deq,
                   markEnq, markDeq, vhist, cyc, prev, msgs, quitSleeps,
                   quitPolls>>

\* mutant: a failed command write sets the failure flag
CmdWriteSetsFlag ==
    /\ wpc = "cmd_write"
    /\ buffer0' = cmd
    /\ \E r \in WriteReturns :
          /\ sent' = Append(sent, [op |-> cmd, ok |-> (r = 1)])
          /\ last_cycle_failed' = (last_cycle_failed \/ r # 1)
    /\ quitCmds' = IF quitting THEN Inc(quitCmds, LogCap) ELSE quitCmds
    /\ bus' = NoteCmd
    /\ wpc' = "lock"
    /\ UNCHANGED calc
    /\ UNCHANGED <<file_i2c, mut, commands, quitting, vals, ipc, data, cmd,
                   plocals, rlocals, enq, deq, markEnq, markDeq, vhist, cyc,
                   prev, msgs, quitSleeps, quitPolls>>

\* lines 137-141: buffer[0] = cmd; write(file_i2c, buffer, 1); a failed
\* write is reported and nothing else is done with the command
CmdWrite ==
    /\ wpc = "cmd_write"
    /\ buffer0' = cmd
    /\ \E r \in WriteReturns : sent' = Append(sent, [op |-> cmd, ok |-> (r = 1)])
    /\ quitCmds' = IF quitting THEN Inc(quitCmds, LogCap) ELSE quitCmds
    /\ bus' = NoteCmd
    /\ wpc' = AfterCmdWrite
    /\ UNCHANGED calc
    /\ UNCHANGED <<file_i2c, mut, commands, quitting, vals, ipc,
                   last_cycle_failed, data, cmd, plocals, rlocals, enq, deq,
                   markEnq, markDeq, vhist, cyc, prev, msgs, quitSleeps,
                   quitPolls>>

\* mutant: a failed exchange jumps to the top of the body, past the test
AfterFailureNoTest == "sleep"

\* where the loop goes after a failed exchange: continue
AfterFailure == "check"

\* mutant: only an error return counts as a failed request
WriteFailedNegative(r) == r < 0

\* line 146: the request failed unless write() returned 1
WriteFailed(r) == r # 1

\* mutant: the failure of the 0x00 write is reported every time
WriteFailureLoggedAlways(flag) == TRUE

\* line 148: the failure of the 0x00 write is reported if (!last_cycle_failed)
WriteFailureLogged(flag) == ~flag

\* lines 145-157: buffer[0] = 0x00; write(file_i2c, buffer, 1)
ReqWrite ==
    /\ wpc = "req_write"
    /\ buffer0' = READ_REQUEST
    /\ quitPolls' = AfterExit(quitPolls)
    /\ \E r \in WriteReturns :
          /\ cyc' = IF r = 1 THEN "req" ELSE "wfail"
          /\ bus' = Append(bus, IF r = 1 THEN "req1" ELSE "reqf")
          /\ IF WriteFailed(r)
               THEN /\ Log("wfail", WriteFailureLogged(last_cycle_failed))
                    /\ last_cycle_failed' = TRUE
                    /\ wpc' = AfterFailure
               ELSE /\ Log("wrec", last_cycle_failed)
                    /\ last_cycle_failed' = FALSE
                    /\ wpc' = "read"
    /\ UNCHANGED calc
    /\ UNCHANGED <<file_i2c, mut, commands, quitting, vals, ipc, data, cmd,
                   plocals, rlocals, qhist, vhist, prev, quitSleeps, quitCmds>>

\* mutant: any read that returned bytes is accepted
ReadAcceptedShort(n) == n > 0

\* line 160: the reply is accepted when read() returned length
ReadAccepted(n) == n = InputReadingsSize

\* lines 160-171: read(file_i2c, &data, length); `replies` is what the
\* peripheral may answer
Read(replies) ==
    /\ wpc = "read"
    /\ quitPolls' = AfterExit(quitPolls)
    /\ bus' = Append(bus, "read")
    /\ \E n \in ReadReturns, reply \in replies :
          /\ data' = Overlay(data, reply, n)
          /\ cyc' = IF n = FRAME_LEN THEN "ok" ELSE "rfail"
          /\ lastGood' = IF n = FRAME_LEN THEN Decode(reply) ELSE lastGood
          /\ IF ~ReadAccepted(n)
               THEN /\ Log("rfail", ~last_cycle_failed)
                    /\ last_cycle_failed' = TRUE
                    /\ wpc' = AfterFailure
               ELSE /\ Log("rrec", last_cycle_failed)
                    /\ last_cycle_failed' = FALSE
                    /\ wpc' = "pv1"
    /\ UNCHANGED calc
    /\ UNCHANGED <<statics, vals, ipc, cmd, plocals, rlocals, qhist,
                   rdirty, prev, quitSleeps, quitCmds>>

\* ---------------------------------------------------------- process_values
\* process_values is being executed
InPublish == wpc \in {"pv1", "pv2", "pv3", "pv4", "pv5"}

\* a store that lands while a get_values call is under way
NoteStore == rdirty' = (rdirty \/ rpc # 0)

\* line 183
StoreTuner ==
    /\ wpc = "pv1"
    /\ val_tuner' = Decode(data)[1]
    /\ NoteStore
    /\ wpc' = "pv2"
    /\ UNCHANGED calc
    /\ UNCHANGED <<statics, val_aknob, val_bknob, val_cknob, val_swtch, ipc,
                   last_cycle_failed, data, cmd, plocals, rlocals, qhist,
                   lastGood, lhist, xhist>>

\* line 184
StoreAknob ==
    /\ wpc = "pv2"
    /\ val_aknob' = Decode(data)[2]
    /\ NoteStore
    /\ wpc' = "pv3"
    /\ UNCHANGED calc
    /\ UNCHANGED <<statics, val_tuner, val_bknob, val_cknob, val_swtch, ipc,
                   last_cycle_failed, data, cmd, plocals, rlocals, qhist,
                   lastGood, lhist, xhist>>

\* mutant: the b knob is stored from the a knob's field
StoreBknobFromAknob ==
    /\ wpc = "pv3"
    /\ val_bknob' = Decode(data)[2]
    /\ NoteStore
    /\ wpc' = "pv4"
    /\ UNCHANGED calc
    /\ UNCHANGED <<statics, val_tuner, val_aknob, val_cknob, val_swtch, ipc,
                   last_cycle_failed, data, cmd, plocals, rlocals, qhist,
                   lastGood, lhist, xhist>>

\* line 185
StoreBknob ==
    /\ wpc = "pv3"
    /\ val_bknob' = Decode(data)[3]
    /\ NoteStore
    /\ wpc' = "pv4"
    /\ UNCHANGED calc
    /\ UNCHANGED <<statics, val_tuner, val_aknob, val_cknob, val_swtch, ipc,
                   last_cycle_failed, data, cmd, plocals, rlocals, qhist,
                   lastGood, lhist, xhist>>

\* line 186
StoreCknob ==
    /\ wpc = "pv4"
    /\ val_cknob' = Decode(data)[4]
    /\ NoteStore
    /\ wpc' = "pv5"
    /\ UNCHANGED calc
    /\ UNCHANGED <<statics, val_tuner, val_aknob, val_bknob, val_swtch, ipc,
                   last_cycle_failed, data, cmd, plocals, rlocals, qhist,
                   lastGood, lhist, xhist>>

\* line 187, then the end of the loop body
StoreSwtch ==
    /\ wpc = "pv5"
    /\ val_swtch' = Decode(data)[5]
    /\ NoteStore
    /\ wpc' = "check"
    /\ UNCHANGED calc
    /\ UNCHANGED <<statics, val_tuner, val_aknob, val_bknob, val_cknob, ipc,
                   last_cycle_failed, data, cmd, plocals, rlocals, qhist,
                   lastGood, lhist, xhist>>

\* lines 177-178: deinit(); return nullptr
LoopDeinit ==
    /\ wpc = "deinit"
    /\ deinit
    /\ wpc' = "stopped"
    /\ UNCHANGED calc
    /\ UNCHANGED <<mut, commands, quitting, buffer0, vals, ipc,
                   last_cycle_failed, data, cmd, plocals, rlocals, qhist,
                   vhist, lhist, xhist>>

\* -------------------------------------------------------------- get_values
\* the atomic the k-th load of get_values reads
LoadOf(k) == vals[k]

\* lines 192-196: one __atomic_load_n per step
GetValuesLoad ==
    /\ InitReturned
    /\ rpc < 5
    /\ rd' = [rd EXCEPT ![rpc + 1] = LoadOf(rpc + 1)]
    /\ rpc' = rpc + 1
    /\ rdirty' = IF rpc = 0 THEN InPublish ELSE rdirty
    /\ UNCHANGED calc
    /\ UNCHANGED <<statics, vals, ipc, wlocals, plocals, qhist,
                   lastGood, lhist, xhist>>

\* the caller takes the five values
GetValuesReturn ==
    /\ rpc = 5
    /\ rpc' = 0
    /\ rd' = Unset
    /\ rdirty' = FALSE
    /\ UNCHANGED calc
    /\ UNCHANGED <<statics, vals, ipc, wlocals, plocals, qhist,
                   lastGood, lhist, xhist>>

\* ------------------------------------------------------------ interpolation
\* The functions compute in double and round once at the end.  Here the
\* same value is computed exactly: each term scale * y * n / d as a whole
\* part and a remainder over d, the remainders added over the common
\* denominator.  No value of the domain is within double precision of a
\* half, so round() of the double sum is the rounding of the exact sum.

\* whole part and remainder of c * n / d, for d > 0
Quot(c, n, d) == c * (n \div d) + (c * (n % d)) \div d
Rem(c, n, d) == (c * (n % d)) % d

\* round(): to the nearest integer, halves away from zero, of i + f / l
\* where 0 <= f < l
Round(i, f, l) ==
    IF i >= 0 THEN (IF 2 * f >= l THEN i + 1 ELSE i)
              ELSE (IF 2 * f > l THEN i + 1 ELSE i)

\* round(scale * p(x)) for the Lagrange polynomial p through (x1, y1),
\* (x2, y2), (x3, y3), x1 < x2 < x3: the three terms of lines 220-222 and
\* 242-244, the second over its negative denominator (x2 - x1)*(x2 - x3)
Lagrange(x, x1, y1, x2, y2, x3, y3, scale) ==
    LET d12 == x2 - x1
        d13 == x3 - x1
        d23 == x3 - x2
        n1 == (x - x2) * (x - x3)
        n2 == 0 - (x - x1) * (x - x3)
        n3 == (x - x1) * (x - x2)
        q == Quot(scale * y1, n1, d12 * d13)
             + Quot(scale * y2, n2, d12 * d23)
             + Quot(scale * y3, n3, d13 * d23)
        f == Rem(scale * y1, n1, d12 * d13) * d23
             + Rem(scale * y2, n2, d12 * d23) * d13
             + Rem(scale * y3, n3, d13 * d23) * d12
        l == d12 * d13 * d23
    IN  Round(q + f \div l, f % l, l)

\* mutant: the frequency rounded in MHz, not in tenths
tuner_val_to_freq_mhz(v) == Lagrange(v, 144, 90, 473, 98, 703, 102, 1)

\* lines 206-226: x = val, nodes 144 => 90, 473 => 98, 703 => 102,
\* return (int)round(freq * 10)
tuner_val_to_freq(v) == Lagrange(v, 144, 90, 473, 98, 703, 102, 10)

\* lines 228-248: x = freq, nodes 90 => 144, 98 => 473, 102 => 703,
\* return (int)round(val * 10)
freq_to_tuner_val(f) == Lagrange(f, 90, 144, 98, 473, 102, 703, 10)

TunerVals == 0..MaxTunerVal

\* int freq = tuner_val_to_freq(tuner)
Forward ==
    /\ tpc = "start"
    /\ freq' = tuner_val_to_freq(val)
    /\ tpc' = "fwd"
    /\ UNCHANGED <<val, back>>
    /\ UNCHANGED <<statics, vals, ipc, wlocals, plocals, rlocals, qhist,
                   vhist, lhist, xhist>>

\* freq_to_tuner_val(freq) on the frequency just computed
Inverse ==
    /\ tpc = "fwd"
    /\ back' = freq_to_tuner_val(freq)
    /\ tpc' = "inv"
    /\ UNCHANGED <<val, freq>>
    /\ UNCHANGED <<statics, vals, ipc, wlocals, plocals, rlocals, qhist,
                   vhist, lhist, xhist>>

\* ------------------------------------------------------------ specification
InitCall == InitOpen \/ InitIoctl \/ InitMutex \/ InitCreate

\* the worker while the queue stays empty and exit() is not called
Poll(stack, replies) ==
    \/ LoopEnter(stack) \/ LoopCheck \/ Sleep
    \/ DrainLock \/ DrainPop
    \/ ReqWrite \/ Read(replies)
    \/ StoreTuner \/ StoreAknob \/ StoreBknob \/ StoreCknob \/ StoreSwtch

Worker(stack, replies) == Poll(stack, replies) \/ CmdWrite \/ LoopDeinit

Producer == \E p \in Producers : SetLightLock(p) \/ SetLightPush(p)

Consumer == GetValuesLoad \/ GetValuesReturn

\* The command path and the life cycle: init, the worker, the producers and
\* exit().  get_values writes nothing the other threads read and nothing
\* here depends on what the replies hold, so the peripheral answers with
\* one frame and the caller of get_values is left to SpecRead.
Next == InitCall \/ Worker({ZeroFrame}, {Frame1}) \/ Producer \/ Exit

Spec == Init /\ [][Next]_vars

\* The readings path: the worker's cycle, with any stack contents and both
\* replies, against one get_values caller.  set_light and exit() write
\* nothing that reaches the stored readings.
NextRead == InitCall \/ Poll(Garbage, Frames) \/ Consumer

SpecRead == Init /\ [][NextRead]_vars

\* The frame codec: the worker's cycle over the replies of a peripheral that
\* holds any of CodecReadings.
NextCodec == InitCall \/ Poll({ZeroFrame}, CodecFrames)

SpecCodec == Init /\ [][NextCodec]_vars

\* The interpolation functions, on every raw tuner value of the range:
\* tuner_val_to_freq, then freq_to_tuner_val on its result.
InitCalc ==
    /\ Constructed
    /\ tpc = "start"
    /\ val \in TunerVals
    /\ freq = 0 /\ back = 0

NextCalc == Forward \/ Inverse

SpecCalc == InitCalc /\ [][NextCalc]_vars

\* Scheduling: the worker thread keeps being run, every bus call and sleep
\* returns, and the worker is not starved of the mutex (it gets it if it is
\* free again and again); a producer inside set_light's critical section
\* goes on to push and unlock. Nothing makes a producer call set_light, and
\* nothing stops it from calling again.
Fairness ==
    /\ SF_vars(Worker({ZeroFrame}, {Frame1}))
    /\ \A p \in Producers : WF_vars(SetLightPush(p))

SpecFair == Init /\ [][Next]_vars /\ Fairness

\* ============================================================== properties
IsPrefix(a, b) == Len(a) <= Len(b) /\ SubSeq(b, 1, Len(a)) = a
SentOps == [i \in 1..Len(sent) |-> sent[i].op]

\* every reading the worker can publish, and the zeros before the first
PublishedReadings == {ZeroReading} \cup {Decode(f) : f \in Frames}

\* C1: the five values one get_values call returns all come from the same
\* published reading, never a mix of an older and a newer one.
C1_NoTornSnapshot == rpc = 5 => rd \in PublishedReadings

\* C2: the opcodes removed from the queue, over all cycles, are a prefix of
\* the opcodes in the order they were pushed, and what is still queued is
\* exactly the rest: same order, none lost, none removed twice.
C2_DrainIsFifoPrefix ==
    /\ IsPrefix(deq, enq)
    /\ commands = SubSeq(enq, Len(deq) + 1, Len(enq))

\* two different opcodes pushed by the producers came out in their order
C2_Witness ==
    /\ Len(deq) = 2
    /\ deq[1] # deq[2]
    /\ deq = enq
    /\ wpc = "cmd_write"

\* C3: a contiguous run of failing cycles logs one failure message, in its
\* first cycle, and a recovery message is logged only by the cycle that
\* recovers; stated for the claim's own case, cycles whose reply read
\* fails: a cycle that follows one, and whose own read fails too, logs
\* neither a failure nor a recovery.
C3_OneMessagePerStreak ==
    (prev = "rfail" /\ cyc = "rfail") => msgs = <<>>

\* C4: outside process_values the stored readings are, field for field, the
\* decoded reply of the last cycle whose read returned 9 bytes (zeros before
\* the first), and a get_values call that no publish overlaps returns them.
C4_SnapshotIsLastGoodReply ==
    /\ ~InPublish => vals = lastGood
    /\ (rpc = 5 /\ ~rdirty /\ ~InPublish) => rd = lastGood

\* get_values returned the last good reply after a later read came back
\* short and overwrote part of the worker's buffer
C4_Witness ==
    /\ rpc = 5 /\ ~rdirty
    /\ wpc = "check" /\ cyc = "rfail"
    /\ rd = lastGood
    /\ lastGood # ZeroReading
    /\ Decode(data) # lastGood

\* C5: the stored readings change only in a cycle whose 0x00 write returned 1
\* and whose read returned 9 bytes; a cycle whose write or read failed, or
\* whose read was short, leaves all five fields as they were.
C5_OnlyGoodCyclesStore ==
    [][vals' # vals => (cyc = "ok" /\ cyc' = "ok")]_vars

\* a short read has overwritten part of the buffer, the cycle is over and
\* the stored readings are still the earlier reply
C5_Witness ==
    /\ wpc = "check" /\ cyc = "rfail"
    /\ vals = lastGood
    /\ lastGood # ZeroReading
    /\ Decode(data) # lastGood

\* C6: a command whose bus write failed is gone: the i-th command write on
\* the bus is the i-th command pushed, so none is written twice, and no
\* command that was written, successfully or not, is back in the queue.
C6_FailedCommandIsDropped ==
    /\ IsPrefix(SentOps, enq)
    /\ Len(commands) + Len(sent) <= Len(enq)

\* the first command's write failed, and a later cycle's drain removed and
\* wrote the second command only
C6_Witness ==
    /\ Len(sent) = 2
    /\ ~sent[1].ok
    /\ markDeq = 1
    /\ wpc = "req_write"
    /\ commands = <<>>

\* C7: when the worker is about to write 0x00, every command that was in
\* the queue when this cycle's drain began has had its write attempted, in
\* the order of pushing, and the worker's last look at the queue found it
\* empty.
C7_DrainedBeforeRequest ==
    wpc = "req_write" =>
        /\ cyc = "drain"
        /\ cmd = NO_CMD
        /\ Len(sent) >= markEnq
        /\ IsPrefix(SentOps, enq)

\* two commands were queued when the drain began and both were written
C7_Witness ==
    /\ wpc = "req_write"
    /\ markDeq = 0 /\ markEnq = 2
    /\ Len(sent) = 2

\* C8: the commands removed in one cycle are the queue's contents at one
\* instant: while a drain is running it has removed no command that was
\* pushed after it began (markEnq commands had been pushed when it began).
C8_DrainIsOneSnapshot == cyc = "drain" => Len(deq) <= markEnq

\* C9: once exit() has been called with the worker thread created, the
\* worker eventually closes the handle and ends, whatever its last cycle
\* did; and from Stopped on it issues no bus call and stays closed.
C9_ExitStopsTheWorker ==
    /\ (quitting /\ wpc # "none") ~> (wpc = "stopped" /\ file_i2c = -1)
    /\ [][wpc = "stopped" =>
            /\ wpc' = "stopped"
            /\ file_i2c' = -1
            /\ UNCHANGED <<buffer0, data, quitCmds, quitPolls>>]_vars

\* C10 as claimed: after exit() the worker sleeps at most once and issues
\* at most one more bus call.
C10_OneTransactionAfterExit ==
    quitSleeps <= 1 /\ quitCmds + quitPolls <= 1

\* C10 as amended: the flag is looked at only between cycles (the worker
\* leaves the loop with no cycle half done), and after exit() the worker
\* sleeps at most once and issues at most one cycle's bus calls: the writes
\* of the commands it drains, then one 0x00 write and one read.
C10_OneCycleAfterExit ==
    /\ quitSleeps <= 1
    /\ quitPolls <= 2
    /\ wpc \in {"deinit", "stopped"} =>
          (quitting /\ cyc \in {"none", "wfail", "rfail", "ok"})

\* exit() came after the loop test: a sleep, a command write, the 0x00
\* write and the read followed before the worker stopped
C10_Witness ==
    /\ wpc = "stopped"
    /\ quitSleeps = 1
    /\ quitCmds >= 1
    /\ quitPolls = 2

\* C11: init() is not entered again once it has returned false, and whenever
\* it has returned false the handle is closed (-1), there is no worker, and
\* no bus call has been issued or ever is: nothing was written or read,
\* whatever set_light and exit() calls follow.
C11_FailedInitStaysIdle ==
    [][/\ ipc = "failed" => ipc' = "failed"
       /\ ipc' = "failed" =>
             /\ file_i2c' = -1
             /\ wpc' = "none"
             /\ sent' = <<>> /\ bus' = <<>> /\ cyc' = "none"
             /\ buffer0' = 0
             /\ data' = ZeroFrame]_vars

\* init() failed; set_light was called twice and exit() once after it
C11_Witness ==
    /\ ipc = "failed"
    /\ file_i2c = -1
    /\ Len(commands) = 2
    /\ quitting

\* C12: when a 9-byte reply b0..b8 has been published, the stored readings
\* are b0 + 256*b1, b2 + 256*b3, b4 + 256*b5, b6 + 256*b7 and b8, and they
\* are the very tuple the peripheral encoded: encoding them again gives the
\* reply back.
C12_DecodeIsLittleEndianInverse ==
    (wpc = "check" /\ cyc = "ok") =>
        /\ val_tuner = data[1] + 256 * data[2]
        /\ val_aknob = data[3] + 256 * data[4]
        /\ val_bknob = data[5] + 256 * data[6]
        /\ val_cknob = data[7] + 256 * data[8]
        /\ val_swtch = data[9]
        /\ vals \in CodecReadings
        /\ Encode(vals) = data

\* a reading whose fields sit on both sides of a byte boundary was published
C12_Witness ==
    /\ wpc = "check" /\ cyc = "ok"
    /\ data = <<0, 1, 255, 0, 0, 128, 255, 127, 128>>
    /\ vals = <<256, 255, 32768, 32767, 128>>

\* C13: freq_to_tuner_val takes a frequency in tenths of MHz back to the
\* raw tuner code: 980 gives 473, and at the three calibration codes it
\* undoes tuner_val_to_freq.
C13_InverseAtCalibration ==
    tpc = "inv" =>
        /\ freq = 980 => back = 473
        /\ val \in {144, 473, 703} => back = val

\* C14: tuner_val_to_freq gives the three calibration frequencies exactly,
\* in tenths of MHz: 144 -> 900, 473 -> 980, 703 -> 1020.
C14_ForwardAtCalibration ==
    tpc \in {"fwd", "inv"} =>
        /\ val = 144 => freq = 900
        /\ val = 473 => freq = 980
        /\ val = 703 => freq = 1020

\* tuner_val_to_freq(473) has returned 980
C14_Witness ==
    /\ tpc = "fwd"
    /\ val = 473
    /\ freq = 980

\* C15: between cycles the flag says whether the cycle just ended failed
\* (its 0x00 write or its read), it is false before the first cycle, and
\* from the start of a cycle up to its 0x00 write, command writes included,
\* it still says whether the cycle before failed.
C15_FlagIsPreviousFailure ==
    /\ wpc \in {"check", "sleep", "deinit"} =>
          (last_cycle_failed <=> cyc \in {"wfail", "rfail"})
    /\ wpc \in {"lock", "pop", "cmd_write", "req_write"} =>
          (last_cycle_failed <=> prev \in {"wfail", "rfail"})

\* the cycle before was good, a command write of this cycle has failed,
\* and the flag is still false at the 0x00 write
C15_Witness ==
    /\ wpc = "req_write"
    /\ prev = "ok"
    /\ bus = <<"cmd">>
    /\ Len(sent) > 0
    /\ ~sent[Len(sent)].ok
    /\ ~last_cycle_failed

\* C16 as claimed: a cycle whose 0x00 write fails logs the write-failure
\* message when it is the first of its run of such cycles, that is when
\* the cycle before was not one of them, and logs nothing otherwise; and a
\* cycle whose 0x00 write succeeds after such a run has, when it comes to
\* its read, logged exactly the write-recovery message and cleared the flag.
C16_WriteFailureLoggedInFirstCycle ==
    /\ cyc = "wfail" =>
          msgs = IF prev = "wfail" THEN <<>> ELSE <<"wfail">>
    /\ (wpc = "read" /\ prev = "wfail") =>
          (msgs = <<"wrec">> /\ ~last_cycle_failed)

\* C16 as amended: the first cycle of the run logs the message only when
\* the cycle before it did not fail at all; a run that follows a cycle
\* whose read failed logs no write-failure message, the flag being set
\* already. The rest as claimed.
C16_WriteFailureLoggedAtStreakStart ==
    /\ cyc = "wfail" =>
          msgs = IF prev \in {"wfail", "rfail"} THEN <<>> ELSE <<"wfail">>
    /\ (wpc = "read" /\ prev = "wfail") =>
          (msgs = <<"wrec">> /\ ~last_cycle_failed)

\* after a cycle whose 0x00 write failed, this cycle's 0x00 write has
\* succeeded: one recovery message, the flag clear, the read to come
C16_Witness ==
    /\ wpc = "read"
    /\ prev = "wfail"
    /\ msgs = <<"wrec">>
    /\ ~last_cycle_failed

\* the bus calls one cycle may issue, in order: command writes first, then
\* one 0x00 write, then, only if that returned 1, one read
ProtocolOrders ==
    { <<>>, <<"cmd">>,
      <<"reqf">>, <<"cmd", "reqf">>,
      <<"req1">>, <<"cmd", "req1">>,
      <<"req1", "read">>, <<"cmd", "req1", "read">> }

\* C17: within a cycle a read comes only directly after that cycle's 0x00
\* write and only if the write returned 1; a cycle whose 0x00 write failed
\* issues no read; no cycle issues two 0x00 writes or two reads.
C17_ProtocolOrder ==
    /\ bus \in ProtocolOrders
    /\ cyc = "wfail" => bus \in {<<"reqf">>, <<"cmd", "reqf">>}

\* a cycle that wrote commands, then 0x00, then read the reply
C17_Witness ==
    /\ bus = <<"cmd", "req1", "read">>
    /\ wpc = "pv1"

\* C18: the worker holds the mutex only while it looks at the queue and
\* removes one opcode, a producer only between its lock and its push; so
\* the mutex is not the worker's during any bus write or read, and whoever
\* holds it can go on to release it without waiting for anything.
C18_NoBusCallUnderMutex ==
    /\ mut = "worker" <=> wpc = "pop"
    /\ \A p \in Producers : mut = p <=> ppc[p] = "locked"
    /\ wpc \in {"cmd_write", "req_write", "read"} => mut # "worker"
    /\ mut = "worker" => ENABLED DrainPop
    /\ \A p \in Producers : mut = p => ENABLED SetLightPush(p)

\* a producer holds the mutex while the worker is writing a command
C18_Witness ==
    /\ wpc = "cmd_write"
    /\ mut \in Producers

\* C19: the handle changes only in init(), while no worker exists, and in
\* the worker's own deinit() as it ends; the worker exists only once
\* init() has returned true; and whenever the worker is about to issue a
\* bus write or read the handle is open.
C19_HandleIsTheWorkers ==
    [][/\ file_i2c' # file_i2c =>
             \/ wpc = "none" /\ ipc \in {"open", "ioctl", "mutex", "create"}
             \/ wpc = "deinit" /\ wpc' = "stopped"
       /\ wpc' # "none" => ipc' = "done"
       /\ wpc' \in {"cmd_write", "req_write", "read"} => file_i2c' # -1]_vars

\* exit() has been called and the worker, in its last cycle, is about to
\* read from the open handle
C19_Witness ==
    /\ quitting
    /\ wpc = "read"
    /\ file_i2c # -1

\* C20: a drain that has begun is followed by the cycle's 0x00 write,
\* whatever the producers do, the worker being scheduled and granted the
\* mutex fairly and every bus call returning.
C20_DrainTerminates == (cyc = "drain") ~> (cyc \in {"req", "wfail"})

====
